---- MODULE Spec2Model ----
(***************************************************************************)
(* omni-comment-core: many concurrent producers each own one section of a  *)
(* single issue comment.  The remote state is the list of comments of the  *)
(* issue and the "eyes" reaction used as a lock.  Every remote call of     *)
(* omniComment (src/src/index.ts) is one atomic step at the server; the    *)
(* callers interleave between their awaits.                                *)
(***************************************************************************)
EXTENDS Integers, Sequences, FiniteSets, TLC

\* ------------------------------------------------------------------ bounds
\* omniComment calls started in one behaviour
MaxCalls == 3
\* remote calls that fail in transport in one behaviour
MaxFaults == 1

\* --------------------------------------------------------------- constants
maxAttempts == 10
IssueNumber == 123

\* the repository and the token the tests call with
Repo == "owner/repo"
Token == "faketoken"

\* the CI jobs that post to the issue
Procs == {"tests", "deploy"}
Solo == "tests"

\* omni-comment.yml of the tests, with a second declared section
ConfigSections == <<"s1", "s2">>

\* inputs of a call: the section may be undeclared ("zz"), the message may be
\* empty (one empty line), one line or two lines; markers never occur in it
SectionInputs == {"s1", "s2", "zz"}
Messages == {<<"">>, <<"a">>, <<"a", "b">>}
Titles == {"", "T"}

\* "no value" of getSectionContent / editCommentBody (a text has >= 1 line)
None == <<>>

\* ------------------------------------------------------ document (pure)
createIdentifier(key, value) ==
  "<!-- mskelton/omni-comment " \o key \o "=" \o value \o " -->"

MainMarker == createIdentifier("id", "main")

RECURSIVE BlankSlots(_)
BlankSlots(sections) ==
  IF sections = <<>> THEN <<>>
  ELSE <<"", createIdentifier("start", Head(sections)),
         "", createIdentifier("end", Head(sections))>>
       \o BlankSlots(Tail(sections))

\* the outer marker, then one empty start/end slot per declared section
createBlankComment(sections) == <<MainMarker>> \o BlankSlots(sections)

\* index of the first line equal to x, 0 when there is none
IndexOf(lines, x) ==
  IF \E i \in 1..Len(lines) : lines[i] = x
  THEN CHOOSE i \in 1..Len(lines) :
         lines[i] = x /\ \A j \in 1..(i - 1) : lines[j] # x
  ELSE 0

SectionStart(body, section) == IndexOf(body, createIdentifier("start", section))
SectionEnd(body, section) == IndexOf(body, createIdentifier("end", section))

HasSection(body, section) ==
  /\ SectionStart(body, section) # 0
  /\ SectionEnd(body, section) > SectionStart(body, section)

\* the lines between the section's markers; no line at all reads as ""
getSectionContent(body, section) ==
  IF ~HasSection(body, section) THEN None
  ELSE IF SectionEnd(body, section) = SectionStart(body, section) + 1 THEN <<"">>
  ELSE SubSeq(body, SectionStart(body, section) + 1, SectionEnd(body, section) - 1)

\* message as it is, or wrapped in <details> when a title is given
formatSectionContent(message, title, collapsed) ==
  IF title = "" THEN message
  ELSE <<IF collapsed THEN "<details>" ELSE "<details open>",
         "<summary><h2>" \o title \o "</h2></summary>",
         "">> \o message \o <<"", "</details>">>

\* a replacement that swallows the section's end marker
replaceSectionAndEnd(body, section, content) ==
  IF ~HasSection(body, section) THEN None
  ELSE SubSeq(body, 1, SectionStart(body, section))
       \o content
       \o SubSeq(body, SectionEnd(body, section) + 1, Len(body))

\* a replacement that puts the content in front of the old interior
replaceSectionInsert(body, section, content) ==
  IF ~HasSection(body, section) THEN None
  ELSE SubSeq(body, 1, SectionStart(body, section))
       \o content
       \o SubSeq(body, SectionStart(body, section) + 1, Len(body))

\* body with the interior of the section's slot replaced by content
replaceSection(body, section, content) ==
  IF ~HasSection(body, section) THEN None
  ELSE SubSeq(body, 1, SectionStart(body, section))
       \o content
       \o SubSeq(body, SectionEnd(body, section), Len(body))

editCommentBody(body, section, message, title, collapsed) ==
  replaceSection(body, section, formatSectionContent(message, title, collapsed))

\* the first comment, in listing order, whose body bears the outer marker
findComment(list) ==
  IF \E i \in 1..Len(list) : IndexOf(list[i], MainMarker) # 0
  THEN CHOOSE i \in 1..Len(list) :
         /\ IndexOf(list[i], MainMarker) # 0
         /\ \A j \in 1..(i - 1) : IndexOf(list[j], MainMarker) = 0
  ELSE 0

\* ids of the start markers of a body, in file order
RECURSIVE SlotIds(_)
SlotIds(body) ==
  IF body = <<>> THEN <<>>
  ELSE IF \E s \in SectionInputs : Head(body) = createIdentifier("start", s)
       THEN <<CHOOSE s \in SectionInputs : Head(body) = createIdentifier("start", s)>>
            \o SlotIds(Tail(body))
       ELSE SlotIds(Tail(body))


\* ------------------------------------------------------------ remote state
VARIABLES
  comments,        \* bodies of the issue's comments, in listing order (id = index)
  lock,            \* per lock target, the id of its "eyes" reaction (0: none)
  nextReactionId,  \* the id the reaction store gives to the next new reaction
\* ------------------------------------------------- one omniComment call each
  pc,              \* the await the call is suspended at
  options,         \* the call's OmniCommentOptions
  existingComment, \* [id, body] read before the lock (id 0: none)
  target,          \* <<type, id>> the call's acquireLock addresses
  attempt,         \* retry's attempt index inside acquireLock
  reaction,        \* reaction.id returned by the last create-reaction call
  comment,         \* id of the comment re-fetched under the lock (0: none)
  body,            \* the edited body about to be pushed
  pending,         \* what the call returns once the lock is disposed
  result,          \* what the call returned
\* ---------------------------------------------------------------- history
  n,               \* remote calls issued by the current call, per kind
  held,            \* id of the reaction this call created (0: none)
  callsMade,       \* omniComment calls started so far
  creates,         \* comment create calls issued so far
  written,         \* per section, the renderings written by successful calls
  anyFailed,       \* some call has failed
  touched,         \* the sections some call has pushed a body for
  forced,          \* some acquireLock call has force-deleted a lock
  prevStatus,      \* status of the call this one repeats ("" when it is no repeat)
  faults           \* remote calls that failed in transport so far

remote == <<comments, lock, nextReactionId>>
locals ==
  <<pc, options, existingComment, target, attempt, reaction, comment, body, pending, result>>
history ==
  <<n, held, callsMade, creates, written, anyFailed, touched, forced, prevStatus, faults>>
vars == <<remote, locals, history>>

\* the options the racing producers call with, and those of the lone producer
Options ==
  [issueNumber : {IssueNumber}, repo : {Repo}, token : {Token},
   section : {"s1", "s2"}, message : {<<"">>, <<"a">>}, title : {""}, collapsed : {FALSE}]
RichOptions ==
  [issueNumber : {IssueNumber}, repo : {Repo}, token : {Token},
   section : SectionInputs, message : Messages, title : Titles, collapsed : BOOLEAN]

\* options with a required value missing (undefined, 0 and "" are all falsy)
InvalidOptions ==
  {o \in [issueNumber : {0, IssueNumber}, repo : {"", Repo}, token : {"", Token},
          section : {"", "s1"}, message : {<<"a">>}, title : {""}, collapsed : {FALSE}] :
     o.issueNumber = 0 \/ o.repo = "" \/ o.token = "" \/ o.section = ""}

NoOptions ==
  [issueNumber |-> 0, repo |-> "", token |-> "",
   section |-> "", message |-> <<"">>, title |-> "", collapsed |-> FALSE]
NoComment == [id |-> 0, body |-> None]
NoResult == [status |-> "", id |-> 0, error |-> ""]
NoCalls ==
  [list |-> 0, get |-> 0, create |-> 0, update |-> 0,
   lockCreate |-> 0, lockBusy |-> 0, lockDelete |-> 0]

\* what a reaction can be put on: the issue, or one of its comments
Targets ==
  {<<"issue", IssueNumber>>} \cup {<<"comment", c>> : c \in 1..(MaxCalls + 1)}
NoTarget == <<"", 0>>

\* a reaction left on the issue by a job that died holding the lock
StaleReaction == 1

\* how many different renderings successful calls wrote to a section (2: several),
\* and the rendering when it is one
NoWrite == [count |-> 0, content |-> None]
Record(w, content) ==
  IF w.count = 0 THEN [count |-> 1, content |-> content]
  ELSE IF w.count = 1 /\ w.content = content THEN w
  ELSE [count |-> 2, content |-> None]

Ok(status, id) == [status |-> status, id |-> id, error |-> ""]
Err(error) == [status |-> "error", id |-> 0, error |-> error]

\* a human's comment is already on the issue: it carries no marker
InitLocals ==
  /\ pc = [p \in Procs |-> "idle"]
  /\ options = [p \in Procs |-> NoOptions]
  /\ existingComment = [p \in Procs |-> NoComment]
  /\ target = [p \in Procs |-> NoTarget]
  /\ attempt = [p \in Procs |-> 0]
  /\ reaction = [p \in Procs |-> 0]
  /\ comment = [p \in Procs |-> 0]
  /\ body = [p \in Procs |-> None]
  /\ pending = [p \in Procs |-> NoResult]
  /\ result = [p \in Procs |-> NoResult]
  /\ n = [p \in Procs |-> NoCalls]
  /\ held = [p \in Procs |-> 0]
  /\ callsMade = 0
  /\ creates = 0
  /\ written = [s \in SectionInputs |-> NoWrite]
  /\ anyFailed = FALSE
  /\ touched = {}
  /\ forced = FALSE
  /\ prevStatus = [p \in Procs |-> ""]
  /\ faults = 0

Init ==
  /\ InitLocals
  /\ comments = << <<"looks good to me">> >>
  /\ lock = [t \in Targets |-> 0]
  /\ nextReactionId = 1

\* the lone producer may find the issue locked by a job that died
InitSolo ==
  /\ InitLocals
  /\ comments = << <<"looks good to me">> >>
  /\ \E stale \in BOOLEAN :
       /\ lock = [t \in Targets |->
                    IF stale /\ t = <<"issue", IssueNumber>> THEN StaleReaction ELSE 0]
       /\ nextReactionId = IF stale THEN StaleReaction + 1 ELSE 1

\* ------------------------------------------------- the reaction store
\* create-reaction: 201 with a new id when the target has no such reaction,
\* 200 with the id of the one already there
CreateReaction(t) ==
  IF lock[t] = 0 THEN [status |-> 201, id |-> nextReactionId]
  ELSE [status |-> 200, id |-> lock[t]]

\* delete-reaction by id; deleting an id that is not there changes nothing,
\* and the store may answer it with an error
DeleteReaction(t, id) == IF lock[t] = id THEN [lock EXCEPT ![t] = 0] ELSE lock
DeleteAnswers(t, id) == IF lock[t] = id THEN {"ok"} ELSE {"ok", "Not Found"}

\* an unlock() that deletes nothing
UnlockNothing(t, id) == lock

\* an unlock() that removes whatever reaction is on the target
UnlockAny(t, id) == [lock EXCEPT ![t] = 0]

\* acquireLock's unlock(): delete the reaction whose id the create call returned
Unlock(t, id) == DeleteReaction(t, id)

\* --------------------------------------------------------- omniComment
\* asserts that let a call without a token through
ValidateWithoutToken(o) ==
  IF o.issueNumber = 0 THEN "Issue number is required"
  ELSE IF o.repo = "" THEN "Repo is required"
  ELSE IF o.section = "" THEN "Section is required"
  ELSE ""

\* index.ts:33-36, the message of the first assert that fails ("": none does)
Validate(o) ==
  IF o.issueNumber = 0 THEN "Issue number is required"
  ELSE IF o.repo = "" THEN "Repo is required"
  ELSE IF o.section = "" THEN "Section is required"
  ELSE IF o.token = "" THEN "Token is required"
  ELSE ""

Rendering(o) == formatSectionContent(o.message, o.title, o.collapsed)

\* a check that compares the slot with the bare message
UnchangedBareMessage(existing, o) ==
  /\ existing.id # 0
  /\ existing.body # None
  /\ getSectionContent(existing.body, o.section) = o.message

\* a check that renders without the collapsed option
UnchangedOpen(existing, o) ==
  /\ existing.id # 0
  /\ existing.body # None
  /\ getSectionContent(existing.body, o.section) =
       formatSectionContent(o.message, o.title, FALSE)

\* index.ts:48-56, the optimistic check before the lock
Unchanged(existing, o) ==
  /\ existing.id # 0
  /\ existing.body # None
  /\ getSectionContent(existing.body, o.section) = Rendering(o)

\* the early return of main.ts: nothing to write and nothing to write to
EarlyReturnNoop(existing, o) ==
  IF Unchanged(existing, o) THEN Ok("unchanged", existing.id)
  ELSE IF existing.id = 0 /\ o.message = <<"">> THEN Ok("noop", 0)
  ELSE NoResult

\* an early return that takes an empty message for "nothing to do"
EarlyReturnEmptyMessage(existing, o) ==
  IF Unchanged(existing, o) THEN Ok("unchanged", existing.id)
  ELSE IF o.message = <<"">> THEN Ok("noop", 0)
  ELSE NoResult

\* index.ts:47-60, what the call returns before it takes the lock, if anything
EarlyReturn(existing, o) ==
  IF Unchanged(existing, o) THEN Ok("unchanged", existing.id) ELSE NoResult

\* a create path that is taken without a message
HasMessageAlways(o) == TRUE

\* index.ts:78, a message to create a comment for
HasMessage(o) == o.message # <<"">>

\* a create call that does not pass the title on
CreateBodyUntitled(o) ==
  editCommentBody(createBlankComment(ConfigSections), o.section, o.message, "",
                  o.collapsed)

\* index.ts:79-87, the body of the comment createComment pushes
CreateBody(o) ==
  editCommentBody(createBlankComment(ConfigSections), o.section, o.message, o.title,
                  o.collapsed)

\* an update that edits a fresh blank document instead of the downloaded body
UpdateBodyFromBlank(o, from) ==
  editCommentBody(createBlankComment(ConfigSections), o.section, o.message, o.title,
                  o.collapsed)

\* index.ts:68-75, the body updateComment pushes for the body it downloaded
UpdateBody(o, from) ==
  editCommentBody(from, o.section, o.message, o.title, o.collapsed)

\* the lock of main.ts: the comment's when there is one, else the issue's
LockTargetPerResource(o, existing) ==
  IF existing.id # 0 THEN <<"comment", existing.id>> ELSE <<"issue", o.issueNumber>>

\* index.ts:63, the lock is always the issue's
LockTarget(o, existing) == <<"issue", o.issueNumber>>

\* a retry that allows one attempt more than maxAttempts
RetryAgainInclusive(a) == a + 1 <= maxAttempts

\* retry: another attempt follows a failed one while attempts are left
RetryAgain(a) == a + 1 < maxAttempts

\* a force-delete on every attempt that finds the lock held
FinalAttemptAlways(a) == TRUE

\* a force-delete that starts one attempt early
FinalAttemptEarly(a) == a + 1 >= maxAttempts - 1

\* acquireLock: the attempt on which a held lock is force-deleted
FinalAttempt(a) == a + 1 = maxAttempts

\* any answer of the create call taken for the lock
AcquiredOnAnyStatus(status) == status \in {200, 201}

\* acquireLock: the status that means the lock is ours
Acquired(status) == status = 201

\* a release that is skipped when the protected region threw
DisposeUnlessThrown(outcome) == IF outcome = "error" THEN "done" ELSE "release"

\* a release that is skipped when the call has nothing to return
DisposeUnlessNoop(outcome) == IF outcome = "noop" THEN "done" ELSE "release"

\* `await using`: where a call goes when it leaves the protected region
Dispose(outcome) == "release"

\* the locals of a call that has returned are gone
Forget(p) ==
  /\ existingComment' = [existingComment EXCEPT ![p] = NoComment]
  /\ target' = [target EXCEPT ![p] = NoTarget]
  /\ attempt' = [attempt EXCEPT ![p] = 0]
  /\ reaction' = [reaction EXCEPT ![p] = 0]
  /\ comment' = [comment EXCEPT ![p] = 0]
  /\ body' = [body EXCEPT ![p] = None]
  /\ pending' = [pending EXCEPT ![p] = NoResult]

Keep == UNCHANGED <<existingComment, target, attempt, reaction, comment, body, pending>>

\* the call returns r (or throws r.error)
Finish(p, r) ==
  /\ pc' = [pc EXCEPT ![p] = "done"]
  /\ result' = [result EXCEPT ![p] = r]
  /\ anyFailed' = (anyFailed \/ r.status = "error")
  /\ written' =
       IF r.status \in {"created", "updated"}
       THEN [written EXCEPT ![options[p].section] = Record(@, Rendering(options[p]))]
       ELSE written

Goto(p, label) ==
  /\ pc' = [pc EXCEPT ![p] = label]
  /\ UNCHANGED <<result, anyFailed, written>>

\* the call leaves the protected region with r still to be delivered
Leave(p, r) ==
  /\ pending' = [pending EXCEPT ![p] = r]
  /\ IF Dispose(r.status) = "release" THEN Goto(p, "release") ELSE Finish(p, r)

Count(p, kind) == n' = [n EXCEPT ![p][kind] = @ + 1]

\* the remote call fails in transport: the store is not changed
Fault == faults < MaxFaults /\ faults' = faults + 1

\* index.ts:32-42, the call starts: the asserts, then the first listing
Begin(p, o, prev) ==
  /\ callsMade < MaxCalls
  /\ callsMade' = callsMade + 1
  /\ options' = [options EXCEPT ![p] = o]
  /\ IF Validate(o) = ""
     THEN /\ pc' = [pc EXCEPT ![p] = "find"]
          /\ result' = [result EXCEPT ![p] = NoResult]
          /\ UNCHANGED <<written, anyFailed>>
     ELSE /\ pc' = [pc EXCEPT ![p] = "done"]
          /\ result' = [result EXCEPT ![p] = Err(Validate(o))]
          /\ anyFailed' = TRUE
          /\ UNCHANGED written
  /\ n' = [n EXCEPT ![p] = NoCalls]
  /\ held' = [held EXCEPT ![p] = 0]
  /\ prevStatus' = [prevStatus EXCEPT ![p] = prev]
  /\ UNCHANGED <<remote, creates, touched, forced, faults>>
  /\ Keep

\* a producer calls omniComment(options)
Start(p) ==
  /\ pc[p] \in {"idle", "done"}
  /\ \E o \in Options : Begin(p, o, "")

\* the lone producer calls omniComment(options)
StartRich(p) ==
  /\ pc[p] \in {"idle", "done"}
  /\ \E o \in RichOptions :
       /\ o.title = "" => ~o.collapsed
       /\ Begin(p, o, "")

\* the lone producer calls omniComment with a required option missing
StartInvalid(p) ==
  /\ pc[p] \in {"idle", "done"}
  /\ \E o \in InvalidOptions : Begin(p, o, "")

\* the producer calls omniComment again with the arguments of its last call
Repeat(p) ==
  /\ pc[p] = "done"
  /\ Begin(p, options[p], result[p].status)

Lookup(list) ==
  IF findComment(list) = 0 THEN NoComment
  ELSE [id |-> findComment(list), body |-> list[findComment(list)]]

\* index.ts:45-60, the read before the lock and the optimistic check
FindExisting(p) ==
  /\ pc[p] = "find"
  /\ Count(p, "list")
  /\ \/ /\ Fault
        /\ Finish(p, Err("Transport"))
        /\ Keep
     \/ /\ UNCHANGED faults
        /\ IF EarlyReturn(Lookup(comments), options[p]) # NoResult
           THEN /\ Finish(p, EarlyReturn(Lookup(comments), options[p]))
                /\ Keep
           ELSE /\ Goto(p, "lock")
                /\ existingComment' = [existingComment EXCEPT ![p] = Lookup(comments)]
                /\ target' = [target EXCEPT ![p] = LockTarget(options[p], Lookup(comments))]
                /\ UNCHANGED <<attempt, reaction, comment, body, pending>>
  /\ UNCHANGED <<remote, options, held, callsMade, creates, touched, forced, prevStatus>>

\* what retry does with an attempt that threw error
Rethrow(p, error) ==
  IF RetryAgain(attempt[p])
  THEN /\ Goto(p, "lock")
       /\ attempt' = [attempt EXCEPT ![p] = @ + 1]
       /\ UNCHANGED <<existingComment, target, comment, body, pending>>
  ELSE /\ Finish(p, Err(error))
       /\ Forget(p)

\* acquireLock, one attempt: the create-reaction call and what follows its answer
LockAttempt(p) ==
  /\ pc[p] = "lock"
  /\ n' = [n EXCEPT ![p]["lockCreate"] = @ + 1,
                    ![p]["lockBusy"] = @ + (IF lock[target[p]] = 0 THEN 0 ELSE 1)]
  /\ lock' = IF lock[target[p]] = 0
             THEN [lock EXCEPT ![target[p]] = nextReactionId]
             ELSE lock
  /\ nextReactionId' = IF lock[target[p]] = 0 THEN nextReactionId + 1 ELSE nextReactionId
  /\ IF Acquired(CreateReaction(target[p]).status)
     THEN /\ Goto(p, "refetch")
          /\ reaction' = [reaction EXCEPT ![p] = CreateReaction(target[p]).id]
          /\ held' = [held EXCEPT ![p] = CreateReaction(target[p]).id]
          /\ UNCHANGED <<existingComment, target, attempt, comment, body, pending>>
     ELSE /\ UNCHANGED held
          /\ IF FinalAttempt(attempt[p])
             THEN /\ Goto(p, "unlock")
                  /\ reaction' = [reaction EXCEPT ![p] = CreateReaction(target[p]).id]
                  /\ UNCHANGED <<existingComment, target, attempt, comment, body, pending>>
             ELSE /\ Rethrow(p, "Lock not acquired")
                  /\ IF RetryAgain(attempt[p]) THEN UNCHANGED reaction ELSE TRUE
  /\ UNCHANGED <<comments, options, callsMade, creates, touched, forced, prevStatus, faults>>

\* acquireLock, one attempt whose create-reaction call fails in transport
LockAttemptError(p) ==
  /\ pc[p] = "lock"
  /\ Count(p, "lockCreate")
  /\ Fault
  /\ Rethrow(p, "Transport")
  /\ IF RetryAgain(attempt[p]) THEN UNCHANGED reaction ELSE TRUE
  /\ UNCHANGED <<remote, options, held, callsMade, creates, touched, forced, prevStatus>>

\* acquireLock, final attempt: unlock() of the reaction that is in the way,
\* then the throw
ForceUnlock(p) ==
  /\ pc[p] = "unlock"
  /\ Count(p, "lockDelete")
  /\ lock' = Unlock(target[p], reaction[p])
  /\ forced' = TRUE
  /\ \E a \in DeleteAnswers(target[p], reaction[p]) :
       Rethrow(p, IF a = "ok" THEN "Lock not acquired" ELSE a)
  /\ IF RetryAgain(attempt[p]) THEN UNCHANGED reaction ELSE TRUE
  /\ UNCHANGED <<comments, nextReactionId, options, held, callsMade, creates, touched, prevStatus, faults>>

\* the edited body is on its way to the push at label, unless the edit threw
Edit(p, edited, label) ==
  IF edited = None
  THEN /\ Leave(p, Err("Section not found"))
       /\ UNCHANGED body
  ELSE /\ Goto(p, label)
       /\ body' = [body EXCEPT ![p] = edited]
       /\ UNCHANGED pending

\* a call that goes by the comment it found before it took the lock
CommentBeforeLock(p) == existingComment[p].id

\* index.ts:66, the comment found by the listing under the lock (0: none)
CommentUnderLock(p) == findComment(comments)

\* index.ts:66-90, the read under the lock and the choice of the path
Refetch(p) ==
  /\ pc[p] = "refetch"
  /\ Count(p, "list")
  /\ \/ /\ Fault
        /\ Leave(p, Err("Transport"))
        /\ UNCHANGED <<comment, body>>
     \/ /\ UNCHANGED faults
        /\ comment' = [comment EXCEPT ![p] = CommentUnderLock(p)]
        /\ IF CommentUnderLock(p) # 0
           THEN /\ Goto(p, "get")
                /\ UNCHANGED <<body, pending>>
           ELSE IF HasMessage(options[p])
           THEN Edit(p, CreateBody(options[p]), "create")
           ELSE /\ Leave(p, Ok("noop", 0))
                /\ UNCHANGED body
  /\ UNCHANGED <<remote, options, existingComment, target, attempt, reaction>>
  /\ UNCHANGED <<held, callsMade, creates, touched, forced, prevStatus>>

\* an update that edits the body the call read before it took the lock
DownloadedBeforeLock(p) ==
  IF existingComment[p].id = comment[p] THEN existingComment[p].body
  ELSE comments[comment[p]]

\* updateComment: the body it edits is the one it downloads, under the lock
Downloaded(p) == comments[comment[p]]

\* updateComment: download the comment and edit its body
GetComment(p) ==
  /\ pc[p] = "get"
  /\ Count(p, "get")
  /\ \/ /\ Fault
        /\ Leave(p, Err("Transport"))
        /\ UNCHANGED body
     \/ /\ UNCHANGED faults
        /\ Edit(p, UpdateBody(options[p], Downloaded(p)), "update")
  /\ UNCHANGED <<remote, options, existingComment, target, attempt, reaction, comment>>
  /\ UNCHANGED <<held, callsMade, creates, touched, forced, prevStatus>>

\* updateComment: push the edited body back
PushUpdate(p) ==
  /\ pc[p] = "update"
  /\ Count(p, "update")
  /\ \/ /\ Fault
        /\ Leave(p, Err("Transport"))
        /\ UNCHANGED <<comments, touched>>
     \/ /\ UNCHANGED faults
        /\ touched' = touched \cup {options[p].section}
        /\ comments' = [comments EXCEPT ![comment[p]] = body[p]]
        /\ Leave(p, Ok("updated", comment[p]))
  /\ UNCHANGED <<lock, nextReactionId, options, existingComment, target, attempt>>
  /\ UNCHANGED <<reaction, comment, body, held, callsMade, creates, forced, prevStatus>>

\* createComment: push the new comment
PushCreate(p) ==
  /\ pc[p] = "create"
  /\ Count(p, "create")
  /\ \/ /\ Fault
        /\ Leave(p, Err("Transport"))
        /\ UNCHANGED <<comments, touched>>
     \/ /\ UNCHANGED faults
        /\ touched' = touched \cup {options[p].section}
        /\ comments' = Append(comments, body[p])
        /\ Leave(p, Ok("created", Len(comments) + 1))
  /\ UNCHANGED <<lock, nextReactionId, options, existingComment, target, attempt>>
  /\ UNCHANGED <<reaction, comment, body, held, callsMade, forced, prevStatus>>
  /\ creates' = creates + 1

\* [Symbol.asyncDispose]: unlock() of the call's own reaction, then the
\* pending result reaches the caller
Release(p) ==
  /\ pc[p] = "release"
  /\ Count(p, "lockDelete")
  /\ lock' = Unlock(target[p], reaction[p])
  /\ \E a \in DeleteAnswers(target[p], reaction[p]) :
       Finish(p, IF a = "ok" THEN pending[p] ELSE Err(a))
  /\ Forget(p)
  /\ UNCHANGED <<comments, nextReactionId, options, held, callsMade, creates, touched, forced>>
  /\ UNCHANGED <<prevStatus, faults>>

\* the steps of a call once it is started
Step(p) ==
  \/ FindExisting(p)
  \/ LockAttempt(p)
  \/ LockAttemptError(p)
  \/ ForceUnlock(p)
  \/ Refetch(p)
  \/ GetComment(p)
  \/ PushUpdate(p)
  \/ PushCreate(p)
  \/ Release(p)

Next == \E p \in Procs : Start(p) \/ Step(p)

Spec == Init /\ [][Next]_vars

NextSolo == StartRich(Solo) \/ StartInvalid(Solo) \/ Repeat(Solo) \/ Step(Solo)

SpecSolo == InitSolo /\ [][NextSolo]_vars

\* ------------------------------------------------ the merge on its own
\* the section declarations of two or three distinct sections, in any order
Configs ==
  {S \in [1..2 -> SectionInputs] \cup [1..3 -> SectionInputs] :
     \A i, j \in DOMAIN S : i # j => S[i] # S[j]}

\* two copies of the blank document of a declaration
InitMerge ==
  /\ InitLocals
  /\ \E S \in Configs : comments = <<createBlankComment(S), createBlankComment(S)>>
  /\ lock = [t \in Targets |-> 0]
  /\ nextReactionId = 1

\* each producer's content is written to its section: the first producer's into
\* the first copy, the second producer's into the second copy
MergeFirst ==
  /\ \A p \in Procs : pc[p] = "idle"
  /\ \E o1, o2 \in RichOptions :
       /\ o1.title = "" => ~o1.collapsed
       /\ o2.title = "" => ~o2.collapsed
       /\ o1.section # o2.section
       /\ HasSection(comments[1], o1.section) /\ HasSection(comments[1], o2.section)
       /\ options' = [p \in Procs |-> IF p = Solo THEN o1 ELSE o2]
       /\ comments' =
            <<editCommentBody(comments[1], o1.section, o1.message, o1.title, o1.collapsed),
              editCommentBody(comments[2], o2.section, o2.message, o2.title, o2.collapsed)>>
  /\ pc' = [p \in Procs |-> "first"]
  /\ UNCHANGED <<lock, nextReactionId, history>>
  /\ UNCHANGED <<existingComment, target, attempt, reaction, comment, body, pending, result>>

\* each copy is given the other producer's content
MergeSecond ==
  /\ \A p \in Procs : pc[p] = "first"
  /\ \E p, q \in Procs :
       /\ p = Solo /\ q # Solo
       /\ comments' =
            <<editCommentBody(comments[1], options[q].section, options[q].message,
                              options[q].title, options[q].collapsed),
              editCommentBody(comments[2], options[p].section, options[p].message,
                              options[p].title, options[p].collapsed)>>
  /\ pc' = [p \in Procs |-> "both"]
  /\ UNCHANGED <<lock, nextReactionId, options, history>>
  /\ UNCHANGED <<existingComment, target, attempt, reaction, comment, body, pending, result>>

NextMerge == MergeFirst \/ MergeSecond

SpecMerge == InitMerge /\ [][NextMerge]_vars

\* ================================================================ claims
IssueLock == <<"issue", IssueNumber>>

\* between the successful acquireLock and the release of that lock
InRegion(p) == pc[p] \in {"refetch", "get", "update", "create", "release"}

Returned(p) == pc[p] = "done"
AllReturned == \A p \in Procs : pc[p] \in {"idle", "done"}

\* the canonical comment's body (None when there is no canonical comment)
Canonical == Lookup(comments).body

\* C1 (as stated): for any interleaving, at most one call at a time is inside
\* the lock-protected region.
C1_MutualExclusion == Cardinality({p \in Procs : InRegion(p)}) <= 1

\* C1 (amended): as long as no acquireLock call has force-deleted the lock on
\* its final attempt, at most one call at a time is inside the protected region.
C1_MutualExclusionUnlessForced ==
  ~forced => Cardinality({p \in Procs : InRegion(p)}) <= 1

\* one caller is inside the region while another one has been turned away
C1_Witness ==
  \E p, q \in Procs :
    /\ InRegion(p)
    /\ pc[q] = "lock"
    /\ n[q].lockBusy >= 1
    /\ ~forced

\* C2: when all calls have returned successfully, each section written by one
\* rendering holds that rendering in the canonical comment: no update is lost.
C2_NoLostUpdate ==
  (AllReturned /\ ~anyFailed) =>
    \A s \in SectionInputs :
      written[s].count = 1 =>
        /\ Canonical # None
        /\ getSectionContent(Canonical, s) = written[s].content

\* two producers wrote different sections, one of them after waiting for the lock
C2_Witness ==
  /\ AllReturned /\ ~anyFailed
  /\ \E p, q \in Procs :
       /\ Returned(p) /\ Returned(q)
       /\ result[p].status \in {"created", "updated"}
       /\ result[q].status = "updated"
       /\ options[p].section # options[q].section
       /\ options[p].message # <<"">> /\ options[q].message # <<"">>
       /\ n[q].lockBusy >= 1
       /\ written[options[p].section].count = 1
       /\ written[options[q].section].count = 1

\* the slots of a body are well formed: every declared section has its start
\* marker before its end marker, and the slots do not overlap
SlotsInOrder(b) ==
  /\ SlotIds(b) = ConfigSections
  /\ \A i \in 1..Len(ConfigSections) :
       /\ HasSection(b, ConfigSections[i])
       /\ i < Len(ConfigSections) =>
            SectionEnd(b, ConfigSections[i]) < SectionStart(b, ConfigSections[i + 1])

\* C3: every managed comment has exactly one slot per declared section, in the
\* declared order, and a section nobody has written is present and empty.
C3_SlotSkeleton ==
  \A i \in 1..Len(comments) :
    IndexOf(comments[i], MainMarker) # 0 =>
      /\ SlotsInOrder(comments[i])
      /\ \A j \in 1..Len(ConfigSections) :
           ConfigSections[j] \notin touched =>
             getSectionContent(comments[i], ConfigSections[j]) = <<"">>

\* the second declared section was written first, then the first one
C3_Witness ==
  /\ Canonical # None
  /\ touched = {"s1", "s2"}
  /\ getSectionContent(Canonical, "s1") = <<"a">>
  /\ getSectionContent(Canonical, "s2") = <<"a">>
  /\ \E p \in Procs :
       Returned(p) /\ result[p].status = "created" /\ options[p].section = "s2"

\* C4: a call that acquired the lock has issued the release of its reaction by
\* the time it returns or throws, whatever happened in the protected region.
C4_ReleasedOnEveryExit ==
  \A p \in Procs :
    (Returned(p) /\ held[p] # 0) =>
      /\ n[p].lockDelete = 1
      /\ lock[IssueLock] # held[p]

\* a call failed inside the protected region and has returned
C4_Witness ==
  \E p \in Procs :
    /\ Returned(p)
    /\ held[p] # 0
    /\ result[p].error \in {"Transport", "Section not found"}
    /\ n[p].update = 1

\* C5 (as stated): after 10 attempts that all report "already present", the
\* call deletes the lock side effect and fails, and the issue is left
\* unlocked, so that the next acquireLock call succeeds on its first attempt.
C5_SelfHealingFreesLock ==
  [][\A p \in Procs :
       (pc[p] = "unlock" /\ pc'[p] = "done" /\ n[p].lockBusy = maxAttempts) =>
         /\ result'[p].status = "error"
         /\ lock'[IssueLock] = 0
         /\ CreateReaction(IssueLock)'.status = 201]_vars

\* C5 (amended): after 10 attempts that all report "already present", the call
\* issues one delete, for the reaction its last attempt reported, and fails;
\* if that reaction is still the one on the issue, the issue is left unlocked
\* and the next create-reaction call reports "newly created".
C5_SelfHealing ==
  [][\A p \in Procs :
       (pc[p] = "unlock" /\ pc'[p] # "unlock" /\ n[p].lockBusy = maxAttempts) =>
         /\ pc'[p] = "done"
         /\ result'[p].status = "error"
         /\ n'[p].lockDelete = 1
         /\ lock'[IssueLock] # reaction[p]
         /\ lock[IssueLock] = reaction[p] =>
              /\ result'[p].error = "Lock not acquired"
              /\ lock'[IssueLock] = 0
              /\ CreateReaction(IssueLock)'.status = 201]_vars

\* a call gave up after 10 busy answers and left the issue unlocked
C5_Witness ==
  \E p \in Procs :
    /\ Returned(p)
    /\ n[p].lockBusy = maxAttempts
    /\ n[p].lockDelete = 1
    /\ result[p].error = "Lock not acquired"
    /\ lock[IssueLock] = 0

\* the rendering of the call's content, as the check before the lock computes it
Rendered(p) ==
  formatSectionContent(options[p].message, options[p].title, options[p].collapsed)

Declared(s) == \E i \in 1..Len(ConfigSections) : ConfigSections[i] = s

\* C6: a call whose rendered content equals the interior of its section in the
\* canonical comment returns "unchanged" and has issued no create-reaction, no
\* delete-reaction and no comment create or update call.
C6_UnchangedSkipsLock ==
  [][\A p \in Procs :
       (/\ pc[p] = "find" /\ pc'[p] # "find" /\ faults' = faults
        /\ Canonical # None
        /\ getSectionContent(Canonical, options[p].section) = Rendered(p)) =>
         /\ pc'[p] = "done"
         /\ result'[p] = Ok("unchanged", findComment(comments))
         /\ n'[p].lockCreate = 0 /\ n'[p].lockDelete = 0
         /\ n'[p].create = 0 /\ n'[p].update = 0 /\ n'[p].get = 0
         /\ remote' = remote]_vars

\* a titled, collapsed block was found unchanged
C6_Witness ==
  \E p \in Procs :
    /\ Returned(p)
    /\ result[p].status = "unchanged"
    /\ options[p].title = "T" /\ options[p].collapsed
    /\ options[p].message = <<"a", "b">>
    /\ prevStatus[p] = ""

\* C7: a call repeated with the arguments of a call that wrote, with no other
\* writer in between, returns "unchanged" and issues no write and no lock call.
C7_RepeatIsUnchanged ==
  \A p \in Procs :
    (/\ Returned(p)
     /\ prevStatus[p] \in {"updated", "created"}
     /\ result[p].error # "Transport") =>
      /\ result[p].status = "unchanged"
      /\ n[p].update = 0 /\ n[p].create = 0
      /\ n[p].lockCreate = 0 /\ n[p].lockDelete = 0

\* an update of a titled, collapsed block was repeated
C7_Witness ==
  \E p \in Procs :
    /\ Returned(p)
    /\ prevStatus[p] = "updated"
    /\ result[p].status = "unchanged"
    /\ options[p].title = "T" /\ options[p].collapsed

\* C8: a call with an empty message never issues a create call, and while
\* there is no canonical comment it issues no update call and, when it returns
\* without an error, returns the no-op result.
C8_NoopWithoutWrite ==
  \A p \in Procs :
    (pc[p] # "idle" /\ options[p].message = <<"">>) =>
      /\ n[p].create = 0
      /\ Canonical = None =>
           /\ n[p].update = 0
           /\ (Returned(p) /\ result[p].status # "error") => result[p] = Ok("noop", 0)

\* a call with an empty message returned the no-op result
C8_Witness ==
  \E p \in Procs :
    /\ Returned(p)
    /\ options[p].message = <<"">>
    /\ result[p] = Ok("noop", 0)
    /\ Canonical = None

\* C9 (as stated): the no-op result is returned without a create-reaction call
\* and without a delete-reaction call.
C9_NoopWithoutLock ==
  \A p \in Procs :
    (Returned(p) /\ result[p].status = "noop") =>
      n[p].lockCreate = 0 /\ n[p].lockDelete = 0

\* C9 (amended): the no-op result is returned only after the call has acquired
\* the issue's lock and read the comments again; the call has issued one
\* delete-reaction call, which released its own lock.
C9_NoopUnderLock ==
  \A p \in Procs :
    (Returned(p) /\ result[p].status = "noop") =>
      /\ n[p].lockCreate >= 1
      /\ held[p] # 0
      /\ n[p].list = 2
      /\ n[p].lockDelete = 1
      /\ lock[IssueLock] # held[p]

\* a no-op call had to wait for the lock
C9_Witness ==
  \E p \in Procs :
    /\ Returned(p)
    /\ result[p].status = "noop"
    /\ n[p].lockBusy >= 1
    /\ n[p].lockDelete = 1

\* C10: with no canonical comment and a message, the call issues one create
\* call; its body is the blank document with the caller's slot holding the
\* rendered message and every other slot empty; the call returns "created"
\* with the id of the new comment.
C10_CreateFillsOneSlot ==
  [][\A p \in Procs :
       /\ (/\ pc[p] = "refetch" /\ pc'[p] # "refetch" /\ faults' = faults
           /\ Canonical = None
           /\ options[p].message # <<"">>
           /\ Declared(options[p].section)) => pc'[p] = "create"
       /\ (pc[p] = "create" /\ pc'[p] # "create" /\ faults' = faults) =>
            /\ n'[p].create = 1
            /\ comments' = Append(comments, body[p])
            /\ Head(body[p]) = MainMarker
            /\ Len(body[p]) = Len(createBlankComment(ConfigSections)) + Len(Rendered(p)) - 1
            /\ SlotsInOrder(body[p])
            /\ \A i \in 1..Len(ConfigSections) :
                 getSectionContent(body[p], ConfigSections[i]) =
                   IF ConfigSections[i] = options[p].section THEN Rendered(p) ELSE <<"">>
            /\ pending'[p] = Ok("created", Len(comments'))
       /\ (pc'[p] = "done" /\ result'[p].status = "created") =>
            /\ n'[p].create = 1
            /\ result'[p] = pending[p]
            /\ result'[p].id \in 1..Len(comments')]_vars

\* a titled block was created as the second comment of the issue
C10_Witness ==
  \E p \in Procs :
    /\ Returned(p)
    /\ result[p] = Ok("created", 2)
    /\ options[p].title = "T"
    /\ options[p].section = "s2"
    /\ getSectionContent(comments[2], "s1") = <<"">>

\* C11: the body an update pushes differs from the body it downloaded only in
\* the interior of the caller's slot: everything up to and including the start
\* marker, everything from the end marker on, the slot order and the interior
\* of every other slot are the same, and the pushed body replaces the comment.
C11_ReplaceSectionFrame ==
  [][\A p \in Procs :
       /\ (pc[p] = "get" /\ pc'[p] = "update") =>
            LET old == comments[comment[p]]
                new == body'[p]
                s == options[p].section
            IN /\ SubSeq(new, 1, SectionStart(new, s)) = SubSeq(old, 1, SectionStart(old, s))
               /\ SubSeq(new, SectionEnd(new, s), Len(new)) =
                    SubSeq(old, SectionEnd(old, s), Len(old))
               /\ getSectionContent(new, s) = Rendered(p)
               /\ SlotIds(new) = SlotIds(old)
               /\ \A t \in SectionInputs :
                    t # s => getSectionContent(new, t) = getSectionContent(old, t)
       /\ (pc[p] = "update" /\ pc'[p] # "update" /\ faults' = faults) =>
            /\ comments' = [comments EXCEPT ![comment[p]] = body[p]]
            /\ pending'[p].status = "updated"]_vars

\* the first section was rewritten next to a titled block in the second one
C11_Witness ==
  \E p \in Procs :
    /\ Returned(p)
    /\ result[p].status = "updated"
    /\ options[p].section = "s1"
    /\ options[p].message = <<"a", "b">>
    /\ Canonical # None
    /\ getSectionContent(Canonical, "s1") = <<"a", "b">>
    /\ Len(getSectionContent(Canonical, "s2")) > 2

\* the interior of the caller's slot in body b holds something
Filled(b, s) == b # None /\ getSectionContent(b, s) \notin {None, <<"">>}

\* C12 (as stated): a call with an empty message that finds its section filled
\* in the canonical comment does not return early; it pushes an update in
\* which the slot is present with an empty interior and returns "updated".
C12_EmptyMessageClears ==
  [][\A p \in Procs :
       /\ (/\ pc[p] = "find" /\ pc'[p] # "find" /\ faults' = faults
           /\ options[p].message = <<"">>
           /\ Filled(Canonical, options[p].section)) => pc'[p] = "lock"
       /\ (/\ pc[p] = "get" /\ pc'[p] # "get" /\ faults' = faults
           /\ options[p].message = <<"">>
           /\ Filled(comments[comment[p]], options[p].section)) =>
            /\ pc'[p] = "update"
            /\ HasSection(body'[p], options[p].section)
            /\ getSectionContent(body'[p], options[p].section) = <<"">>
       /\ (/\ pc[p] = "update" /\ pc'[p] # "update" /\ faults' = faults
           /\ options[p].message = <<"">>) =>
            /\ comments'[comment[p]] = body[p]
            /\ pending'[p] = Ok("updated", comment[p])]_vars

\* C12 (amended): a call with an empty message and no title that finds its
\* section filled in the canonical comment does not return early; it pushes an
\* update in which the slot is present with an empty interior and returns
\* "updated".  With a title the rendering of the empty message is a block.
C12_EmptyUntitledMessageClears ==
  [][\A p \in Procs :
       /\ (/\ pc[p] = "find" /\ pc'[p] # "find" /\ faults' = faults
           /\ options[p].message = <<"">> /\ options[p].title = ""
           /\ Filled(Canonical, options[p].section)) => pc'[p] = "lock"
       /\ (/\ pc[p] = "get" /\ pc'[p] # "get" /\ faults' = faults
           /\ options[p].message = <<"">> /\ options[p].title = ""
           /\ Filled(comments[comment[p]], options[p].section)) =>
            /\ pc'[p] = "update"
            /\ HasSection(body'[p], options[p].section)
            /\ getSectionContent(body'[p], options[p].section) = <<"">>
       /\ (/\ pc[p] = "get" /\ pc'[p] # "get" /\ faults' = faults
           /\ options[p].message = <<"">> /\ options[p].title # ""
           /\ Filled(comments[comment[p]], options[p].section)) =>
            /\ pc'[p] = "update"
            /\ getSectionContent(body'[p], options[p].section) = Rendered(p)
            /\ Len(Rendered(p)) > 1
       /\ (/\ pc[p] = "update" /\ pc'[p] # "update" /\ faults' = faults
           /\ options[p].message = <<"">>) =>
            /\ comments'[comment[p]] = body[p]
            /\ pending'[p] = Ok("updated", comment[p])
       /\ (/\ pc[p] = "release" /\ pc'[p] = "done"
           /\ pending[p].status = "updated" /\ lock[target[p]] = reaction[p]) =>
            result'[p] = pending[p]]_vars

\* a section that held a message was cleared by a call with an empty message
C12_Witness ==
  \E p \in Procs :
    /\ Returned(p)
    /\ result[p].status = "updated"
    /\ options[p].message = <<"">> /\ options[p].title = ""
    /\ n[p].update = 1
    /\ written[options[p].section].count = 2
    /\ HasSection(Canonical, options[p].section)
    /\ getSectionContent(Canonical, options[p].section) = <<"">>

\* C13: a call whose create-reaction call reported "already present" at least
\* once and then reports "newly created" holds the lock from that attempt on,
\* within the 10 attempts and with no delete issued before it; the call then
\* takes the path and pushes the body an uncontended call would, and returns
\* that result once its own reaction is released.
C13_LateAcquisition ==
  [][\A p \in Procs :
       n[p].lockBusy >= 1 =>
         /\ (/\ pc[p] = "lock" /\ lock[target[p]] = 0
             /\ n'[p].lockCreate = n[p].lockCreate + 1 /\ faults' = faults) =>
              /\ pc'[p] = "refetch"
              /\ held'[p] = nextReactionId /\ lock'[IssueLock] = held'[p]
              /\ reaction'[p] = held'[p]
              /\ n[p].lockDelete = 0
              /\ n'[p].lockCreate <= maxAttempts
              /\ attempt[p] \in 1..(maxAttempts - 1)
         /\ (pc[p] = "refetch" /\ pc'[p] # "refetch" /\ faults' = faults) =>
              pc'[p] = IF Canonical # None THEN "get"
                       ELSE IF options[p].message # <<"">> THEN "create"
                       ELSE "release"
         /\ (pc[p] = "get" /\ pc'[p] = "update") =>
              body'[p] = UpdateBody(options[p], Canonical)
         /\ (pc[p] = "update" /\ pc'[p] # "update" /\ faults' = faults) =>
              /\ getSectionContent(Canonical', options[p].section) = Rendered(p)
              /\ pending'[p] = Ok("updated", findComment(comments))
         /\ (pc[p] = "create" /\ pc'[p] # "create" /\ faults' = faults) =>
              /\ comments' = Append(comments, CreateBody(options[p]))
              /\ pending'[p] = Ok("created", Len(comments'))
         /\ (pc[p] = "release" /\ pc'[p] = "done") =>
              /\ n'[p].lockDelete = 1
              /\ lock[IssueLock] = held[p] =>
                   result'[p] = pending[p] /\ lock'[IssueLock] = 0]_vars

\* a call was turned away twice, then got the lock and updated the comment
C13_Witness ==
  \E p \in Procs :
    /\ Returned(p)
    /\ n[p].lockBusy = 2
    /\ n[p].lockCreate = 3
    /\ n[p].lockDelete = 1
    /\ held[p] # 0
    /\ result[p].status = "updated"
    /\ getSectionContent(Canonical, options[p].section) = Rendered(p)

MissingErrors(o) ==
  (IF o.issueNumber = 0 THEN {"Issue number is required"} ELSE {})
  \cup (IF o.repo = "" THEN {"Repo is required"} ELSE {})
  \cup (IF o.section = "" THEN {"Section is required"} ELSE {})
  \cup (IF o.token = "" THEN {"Token is required"} ELSE {})

\* C15: a call made without an issue number, a repo, a section or a token has
\* failed with the "is required" error of a missing option as soon as it is
\* started, and has issued no remote call: no listing, no create-reaction, no
\* comment create or update.
C15_RequiredOptions ==
  \A p \in Procs :
    (pc[p] # "idle" /\ MissingErrors(options[p]) # {}) =>
      /\ Returned(p)
      /\ result[p].status = "error"
      /\ result[p].error \in MissingErrors(options[p])
      /\ n[p] = NoCalls
      /\ held[p] = 0

\* a call without a token failed after an earlier call had created the comment
C15_Witness ==
  \E p \in Procs :
    /\ Returned(p)
    /\ options[p].token = "" /\ options[p].issueNumber # 0
    /\ options[p].repo # "" /\ options[p].section # ""
    /\ result[p] = Err("Token is required")
    /\ n[p] = NoCalls
    /\ Canonical # None

\* C16: for every section declaration and two distinct sections a and b of
\* it, writing a then b to the blank document and writing b then a yield the
\* same document; getSectionContent returns the written content for a and for
\* b, and the slots are still those of the declaration, in its order.
C16_ReplaceSectionCommutes ==
  /\ (\A p \in Procs : pc[p] = "first") =>
       getSectionContent(comments[1], options[Solo].section) = Rendering(options[Solo])
  /\ (\A p \in Procs : pc[p] = "both") =>
       /\ comments[1] # None
       /\ comments[1] = comments[2]
       /\ \A p \in Procs :
            getSectionContent(comments[1], options[p].section) = Rendering(options[p])
       /\ SlotIds(comments[1]) \in Configs
       /\ createBlankComment(SlotIds(comments[1])) =
            replaceSection(replaceSection(comments[1], options[Solo].section, <<"">>),
                           CHOOSE s \in SectionInputs :
                             \E q \in Procs : q # Solo /\ s = options[q].section,
                           <<"">>)

\* the last of three declared sections was given a titled, collapsed block and
\* the first one two lines, in both orders
C16_Witness ==
  /\ \A p \in Procs : pc[p] = "both"
  /\ Len(SlotIds(comments[1])) = 3
  /\ options[Solo].section = SlotIds(comments[1])[3]
  /\ options[Solo].title = "T" /\ options[Solo].collapsed
  /\ \E q \in Procs :
       /\ options[q].section = SlotIds(comments[1])[1]
       /\ options[q].message = <<"a", "b">> /\ options[q].title = ""
  /\ comments[1] = comments[2]

\* C17: the body a call pushes is computed from a read made after the call
\* acquired the lock: the path is chosen by the listing under the lock, and
\* every other section of the pushed body is as the comment holds it then,
\* whatever the call had read before the lock.
C17_PushedFromPostLockRead ==
  [][\A p \in Procs :
       /\ (pc[p] = "refetch" /\ pc'[p] # "refetch" /\ faults' = faults) =>
            /\ held[p] # 0
            /\ comment'[p] = findComment(comments)
            /\ Canonical # None => pc'[p] = "get"
       /\ (pc[p] = "get" /\ pc'[p] = "update") =>
            /\ held[p] # 0
            /\ n[p].list = 2
            /\ getSectionContent(body'[p], options[p].section) = Rendered(p)
            /\ \A s \in SectionInputs :
                 s # options[p].section =>
                   getSectionContent(body'[p], s) = getSectionContent(Canonical, s)
       /\ (pc[p] = "update" /\ ~forced) =>
            \A s \in SectionInputs :
              s # options[p].section =>
                getSectionContent(body[p], s) = getSectionContent(Canonical, s)
       /\ (pc[p] = "update" /\ pc'[p] # "update" /\ faults' = faults) =>
            comments'[comment[p]] = body[p]]_vars

\* another producer changed its section between this call's read before the
\* lock and its acquisition, and the body this call pushed has the change
C17_Witness ==
  \E p \in Procs :
    /\ pc[p] = "release"
    /\ pending[p].status = "updated"
    /\ existingComment[p].id # 0
    /\ n[p].lockBusy >= 1
    /\ getSectionContent(Canonical, options[p].section) = Rendered(p)
    /\ \E s \in SectionInputs :
         /\ s # options[p].section
         /\ getSectionContent(existingComment[p].body, s) # getSectionContent(Canonical, s)
         /\ getSectionContent(body[p], s) = getSectionContent(Canonical, s)

Managed == {i \in 1..Len(comments) : IndexOf(comments[i], MainMarker) # 0}

\* C19 (as stated): whatever the interleaving, at most one comment create call
\* is issued in total (create calls that failed in transport left aside), and
\* the issue never has a second managed comment.
C19_AtMostOneCreateCall ==
  /\ Cardinality(Managed) <= 1
  /\ faults = 0 => creates <= 1

\* C19 (amended): as long as no acquireLock call has force-deleted the lock, a
\* create call is issued only while the issue has no canonical comment and at
\* most one create call succeeds; a create call issued beyond that one failed
\* in transport; a call that finds a canonical comment under the lock updates
\* that comment.
C19_AtMostOneCreated ==
  /\ ~forced =>
       /\ Cardinality(Managed) <= 1
       /\ \A p \in Procs : pc[p] = "create" => Canonical = None
  /\ creates <= Cardinality(Managed) + faults
  /\ \A p \in Procs :
       /\ pc[p] \in {"get", "update"} =>
            comment[p] # 0 /\ comment[p] = findComment(comments)
       /\ (Returned(p) /\ result[p].status = "created") => result[p].id \in Managed

\* a call that found no comment before the lock entered the region after the
\* creator had left it, and is updating the created comment
C19_Witness ==
  \E p, q \in Procs :
    /\ Returned(p) /\ result[p].status = "created"
    /\ pc[q] \in {"update", "release"}
    /\ existingComment[q].id = 0
    /\ options[q].message # <<"">>
    /\ comment[q] = result[p].id
    /\ n[q].lockBusy >= 1
    /\ creates = 1
    /\ ~forced

\* C20: an attempt that finds the lock held and is not the final one issues
\* no delete and leaves the reaction in place; the forced delete is issued on
\* the final attempt only (attempt index 9), once, and the call fails after it.
C20_ForcedDeleteOnFinalAttemptOnly ==
  [][\A p \in Procs :
       /\ pc[p] \in {"lock", "unlock"} => n[p].lockDelete = 0
       /\ pc[p] = "unlock" => attempt[p] + 1 = maxAttempts /\ reaction[p] # 0
       /\ (/\ pc[p] = "lock" /\ n'[p].lockBusy = n[p].lockBusy + 1
           /\ attempt[p] + 1 < maxAttempts) =>
            /\ pc'[p] = "lock"
            /\ n'[p].lockDelete = 0
            /\ lock' = lock
       /\ (/\ pc[p] = "lock" /\ n'[p].lockBusy = n[p].lockBusy + 1
           /\ attempt[p] + 1 = maxAttempts) =>
            /\ pc'[p] = "unlock"
            /\ reaction'[p] = lock[IssueLock]
            /\ n'[p].lockDelete = 0
       /\ (pc[p] = "unlock" /\ n'[p].lockDelete # n[p].lockDelete) =>
            /\ n'[p].lockDelete = 1
            /\ n[p].lockCreate = maxAttempts
            /\ pc'[p] = "done"
            /\ lock'[IssueLock] # reaction[p]
       /\ (Returned(p) /\ held[p] = 0) =>
            /\ n[p].lockDelete <= 1
            /\ n[p].lockDelete = 1 => n[p].lockCreate = maxAttempts]_vars

\* nine attempts of a call were turned away: it has issued no delete and the
\* holder's reaction is in place
C20_Witness ==
  \E p, q \in Procs :
    /\ pc[p] = "lock"
    /\ attempt[p] = maxAttempts - 1
    /\ n[p].lockBusy = maxAttempts - 1
    /\ n[p].lockDelete = 0
    /\ InRegion(q)
    /\ lock[IssueLock] = held[q]

\* C21: a call whose acquireLock gave up after the forced delete fails at once:
\* it makes no further attempt at the lock, lists and downloads nothing more,
\* and issues no comment create or update; the comments are as they were.
C21_LockFailureWritesNothing ==
  [][\A p \in Procs :
       /\ (pc[p] = "unlock" /\ pc'[p] # "unlock") =>
            /\ pc'[p] = "done"
            /\ result'[p].status = "error"
            /\ comments' = comments
            /\ n[p].lockCreate = maxAttempts /\ n'[p].lockCreate = maxAttempts
            /\ n'[p].list = 1 /\ n'[p].get = 0
            /\ n'[p].create = 0 /\ n'[p].update = 0
       /\ (Returned(p) /\ result[p].error = "Lock not acquired") =>
            /\ held[p] = 0
            /\ n[p].lockCreate = maxAttempts
            /\ n[p].lockDelete = 1
            /\ n[p].list = 1 /\ n[p].get = 0
            /\ n[p].create = 0 /\ n[p].update = 0]_vars

\* a call with a message failed with "Lock not acquired" while the holder was
\* still in the region, and its content is not in the comment
C21_Witness ==
  \E p, q \in Procs :
    /\ Returned(p)
    /\ result[p] = Err("Lock not acquired")
    /\ options[p].message # <<"">>
    /\ n[p].list = 1 /\ n[p].update = 0 /\ n[p].create = 0
    /\ InRegion(q)
    /\ ~Unchanged(Lookup(comments), options[p])

\* C22: the release of a handle issues one delete, for the reaction id its own
\* successful create call returned: it removes that reaction when it is still
\* on the issue and nothing otherwise, so a reaction held by another caller
\* stays; no two calls hold the same id, and an id is never given out again.
C22_ReleaseDeletesOwnReaction ==
  [][\A p \in Procs :
       /\ InRegion(p) =>
            /\ held[p] # 0 /\ reaction[p] = held[p]
            /\ held[p] < nextReactionId
            /\ \A q \in Procs : (q # p /\ InRegion(q)) => held[q] # held[p]
       /\ (pc[p] = "lock" /\ pc'[p] = "refetch") =>
            held'[p] = nextReactionId /\ nextReactionId' > held'[p]
       /\ (pc[p] = "release" /\ pc'[p] # "release") =>
            /\ n'[p].lockDelete = n[p].lockDelete + 1
            /\ n'[p].lockDelete = 1
            /\ lock'[IssueLock] =
                 IF lock[IssueLock] = held[p] THEN 0 ELSE lock[IssueLock]
            /\ \A q \in Procs :
                 (q # p /\ InRegion(q) /\ lock[IssueLock] = held[q]) =>
                   lock'[IssueLock] = held[q]]_vars

\* the first holder's reaction was force-deleted, another call then acquired a
\* new one, and the first holder's release left that one in place
C22_Witness ==
  \E p, q \in Procs :
    /\ forced
    /\ Returned(p)
    /\ held[p] # 0
    /\ n[p].lockDelete = 1
    /\ InRegion(q)
    /\ held[q] > held[p]
    /\ lock[IssueLock] = held[q]

====
